---------------------------- MODULE Spec2Model ----------------------------
(* VehicleControl (src/vehicle/vehicle_control.py) and ButtonDocking      *)
(* (src/tasks/button_docking.py) as a state machine.                       *)
(*                                                                         *)
(* The program state is the objects' fields.  Four observation variables  *)
(* record what the last call did: the call and its arguments, the         *)
(* exception it raised, the commands it handed to the MAVLink link and to *)
(* the thread pool (in program order) and the Qt signals it emitted (in   *)
(* program order).  Two history variables keep the last connection signal *)
(* and the last arm signal emitted so far.                                 *)
(*                                                                         *)
(* Time: time.time() - self.last_msg_time is kept as since_last_msg, in   *)
(* whole seconds; it stops growing at MaxAge, which lies past TIMEOUT.     *)
(* Normalised inputs are the rationals m / Denom, written as the integer  *)
(* m; with Denom = 32 they are exact binary floats and m * 400 / 32 hits  *)
(* the .5 cases of round().                                                *)
(*                                                                         *)
(* A task handed to the thread pool is recorded in `out` at the point     *)
(* where it is started and joins `pool`, the bag of tasks whose send has   *)
(* not happened yet; a worker step takes any of them, so sends happen in   *)
(* any order.  relay_hw and cam_hw are what the two side-channel endpoints *)
(* hold after the sends they received.                                     *)
(*                                                                         *)
(* The task reads the same clock: elapsed is time.time() - self.start_time *)
(* at the instants TaskTimes, and stops growing past MAX_TASK_DURATION.    *)
(* Pixel positions are kept in half pixels, sizes in pixels.               *)
(*                                                                         *)
(* Four specifications share Init: Spec (link and RC overrides), SpecRelay *)
(* (arming and relays, with the pool workers), SpecCam (modes and cameras, *)
(* with the pool workers) and SpecTask (the docking task).                 *)
EXTENDS Integers, Sequences, FiniteSets, Bags

VARIABLES
    connected,       \* self.connected
    armed,           \* self.armed
    mode_id,         \* self.mode_id (None is NoneId)
    mode,            \* self.mode (a name of mode_mapping(), or "None")
    since_last_msg,  \* time.time() - self.last_msg_time (None is NoneId)
    call,            \* the last call: [op, args]
    raised,          \* the exception the last call raised, or "none"
    out,             \* commands the last call issued, in program order
    events,          \* signals the last call emitted, in program order
    last_conn_signal, \* history: the last of connected/disconnected emitted
    last_arm_signal,  \* history: the last of armed/disarmed emitted
    camera_states,   \* self.camera_states, in the order of Camera
    pool,            \* self._thread_manager: tasks started and not yet sent
    relay_hw,        \* what the relay endpoint holds, in the order of Relay
    cam_hw,          \* the last payload the camera endpoint received
    task_pc,         \* the task: "constructed", "initialized" or "ended"
    task_state,      \* ButtonDocking.state
    button_pos,      \* ButtonDocking.button_pos, in half pixels
    button_dims,     \* ButtonDocking.button_dims
    image_dims,      \* ButtonDocking.image_dims
    elapsed,         \* time.time() - ButtonDocking.start_time
    image_num,       \* TransectWidget.image_num
    picture_paths,   \* TransectWidget.picture_paths, each path by its number
    frames,          \* history: the frame each capture() copied, in call order
    capture_pc,      \* capture(): "idle", or "set_image" between lines 24 and 25
    image_to_save,   \* CaptureThread.image_to_save
    thread_image_num, \* CaptureThread.image_num
    run_pc,          \* CaptureThread.run(): "finished", "started", "undistorted", "written"
    corrected_image, \* the local corrected_image of run()
    saved            \* the files of transect_frames: <<number, frame>>

vars == <<connected, armed, mode_id, mode, since_last_msg, call, raised, out,
          events, last_conn_signal, last_arm_signal, camera_states, pool,
          relay_hw, cam_hw, task_pc, task_state, button_pos, button_dims,
          image_dims, elapsed, image_num, picture_paths, frames, capture_pc,
          image_to_save, thread_image_num, run_pc, corrected_image, saved>>

\* the camera map, the thread pool and the two endpoints
aux_state == <<camera_states, pool, relay_hw, cam_hw>>

\* the fields of the task
task_fields == <<task_state, button_pos, button_dims, image_dims>>

task_vars == <<task_pc, task_fields, elapsed>>

\* the transect widget, its capture thread and the folder they write to
capture_vars == <<image_num, picture_paths, frames, capture_pc, image_to_save,
                  thread_image_num, run_pc, corrected_image, saved>>

history == <<last_conn_signal, last_arm_signal>>

link_state == <<connected, armed, mode_id, mode, since_last_msg, history>>

-----------------------------------------------------------------------------
(* Bounds of the model *)

\* since_last_msg is tracked up to MaxAge seconds (MaxAge > TIMEOUT)
MaxAge == 3

\* normalised inputs are multiples of 1 / Denom
Denom == 32

\* number of members of the Relay enumeration
NumRelays == 2

\* the thread pool holds at most MaxPending tasks whose send is still to come
MaxPending == 3

\* the pairs of values compared under pwm are multiples of 1 / PwmGrid
PwmGrid == 1000

\* and lie within PwmWindow grid steps of -1, of 0 and of 1
PwmWindow == 3

\* capture() is called at most MaxCaptures times
MaxCaptures == 3

\* the active frame is one of NumFrames images
NumFrames == 2

-----------------------------------------------------------------------------
(* Program constants *)

TIMEOUT == 2

NoneId == -1

IGNORE == 65535

NUM_CHANNELS == 18

PWM_MIN == 1100

PWM_MAX == 1900

MAX_TASK_DURATION == 500

MIN_TASK_DURATION == 2

\* elapsed is tracked up to one second past MAX_TASK_DURATION
ElapsedCap == MAX_TASK_DURATION + 1

\* vehicle.constants.InputChannel: six logical axes, each with the id of
\* its physical channel
InputChannel == {"PITCH", "ROLL", "THROTTLE", "YAW", "FORWARD", "LATERAL"}

InputChannelValue(ch) ==
    CASE ch = "PITCH"    -> 1
      [] ch = "ROLL"     -> 2
      [] ch = "THROTTLE" -> 3
      [] ch = "YAW"      -> 4
      [] ch = "FORWARD"  -> 5
      [] ch = "LATERAL"  -> 6

\* vehicle.constants.Camera, in definition order: cam.value for each camera
Camera == <<"FRONT", "BOTTOM">>

\* camera_states after __init__: False for each camera, then FRONT and
\* BOTTOM set to True
InitCameraStates ==
    [i \in 1..Len(Camera) |-> Camera[i] \in {"FRONT", "BOTTOM"}]

\* vehicle.constants.Relay, in definition order (the order of "for relay in Relay")
Relay == [i \in 1..NumRelays |-> i]

\* self.link.mode_mapping(): mode name -> custom-mode id
ModeNames == {"STABILIZE", "ALT_HOLD", "MANUAL"}

mode_mapping(m) ==
    CASE m = "STABILIZE" -> 0
      [] m = "ALT_HOLD"  -> 2
      [] m = "MANUAL"    -> 19

-----------------------------------------------------------------------------
(* Inputs *)

\* HEARTBEAT messages <<base_mode, custom_mode>>: base_mode is 8 bits wide,
\* with and without the armed bit 0x80; custom_mode 5 is in no mode_mapping()
BaseModes == {0, 81, 128, 209}

CustomModes == {2, 19, 5}

Heartbeats == BaseModes \X CustomModes

\* the heartbeats of a vehicle that stays in MANUAL, disarmed and armed
LinkHeartbeats == {81, 209} \X {19}

\* a dict as the sequence of its items in insertion order (keys distinct)
IsDict(s) == \A i, j \in 1..Len(s) : i # j => s[i][1] # s[j][1]

DictsOver(items) ==
    {<<>>} \cup {<<e>> : e \in items}
           \cup {s \in {<<e1, e2>> : e1 \in items, e2 \in items} : IsDict(s)}

\* arguments of set_rc_input_pwms: the channel ids at both ends of 1..18 with
\* PWM values around both ends of 1100..1900, and the ids just outside 1..18
\* (and -1) with a good and with a bad PWM value
RawItems ==
    ({1, 18} \X {1099, 1100, 1900, 1901})
        \cup ({-1, 0, 19} \X {1500})
        \cup {<<0, 1901>>, <<19, 1099>>}

RawDicts == DictsOver(RawItems)

\* arguments of set_rc_inputs: values m / Denom around both ends of [-1, 1],
\* and 1 / Denom, 3 / Denom, where round() meets a half
InputValues == {-(Denom + 1), -Denom, 1, 3, Denom, Denom + 1}

InputDicts == DictsOver({"FORWARD", "YAW"} \X InputValues)

\* image_to_save = None
NoImage == 0

\* what app.get_active_frame().copy() can return
Frames == 1..NumFrames

\* a few arguments of each kind: a good one, an empty one and a bad one
FewRawDicts == {<<>>, << <<1, 1100>> >>, << <<0, 1500>> >>}

FewInputDicts == {<< <<"FORWARD", Denom>> >>, << <<"YAW", Denom + 1>> >>}

-----------------------------------------------------------------------------
(* Pure helpers *)

NoCall == [op |-> "init", args |-> <<>>]

\* base_mode & 0x80 == 0x80
ArmedBit(base_mode) == ((base_mode % 256) \div 128) % 2 = 1

\* the name mode_mapping() gives for an id, "None" when it has none
ModeNameOf(id) ==
    IF \E m \in ModeNames : mode_mapping(m) = id
    THEN CHOOSE m \in ModeNames : mode_mapping(m) = id
    ELSE "None"

\* Python's round() of num / den (den > 0): to nearest, halves to even
Round(num, den) ==
    LET q == num \div den
        r == num - q * den
    IN  IF 2 * r < den THEN q
        ELSE IF 2 * r > den THEN q + 1
        ELSE IF q % 2 = 0 THEN q ELSE q + 1

Min(a, b) == IF a <= b THEN a ELSE b

Max(a, b) == IF a >= b THEN a ELSE b

\* the last signal of `kinds` in `signals`, or `old` when there is none
LastSignal(signals, kinds, old) ==
    IF \E i \in 1..Len(signals) : signals[i] \in kinds
    THEN LET i == CHOOSE k \in 1..Len(signals) :
                      /\ signals[k] \in kinds
                      /\ \A j \in (k + 1)..Len(signals) : signals[j] \notin kinds
         IN  signals[i]
    ELSE old

-----------------------------------------------------------------------------
(* set_rc_input_pwms, set_rc_inputs, stop_thrusters *)

\* a guard that forgot the arm state
C3_MutLinkReady == connected

\* is_connected() and is_armed(): the guard of set_rc_input_pwms
LinkReady == connected /\ armed

\* a channel check off by one at the low end
C5_MutChannelExists(channel_id) == ~(channel_id < 0 \/ channel_id > NUM_CHANNELS)

\* not (channel_id < 1 or channel_id > 18)
ChannelExists(channel_id) == ~(channel_id < 1 \/ channel_id > NUM_CHANNELS)

\* a PWM check that forgot the upper end
C1_MutPwmInRange(pwm) == PWM_MIN <= pwm

\* 1100 <= pwm <= 1900
PwmInRange(pwm) == PWM_MIN <= pwm /\ pwm <= PWM_MAX

\* the check of one item of pwms: the channel id first, then the PWM value
ItemError(item) ==
    IF ~ChannelExists(item[1]) THEN "ChannelIdNotExist"
    ELSE IF ~PwmInRange(item[2]) THEN "PwmOutOfRange"
    ELSE "none"

\* the ValueError the loop over pwms.items() raises: that of the first bad item
PwmsError(pwms) ==
    IF \E i \in 1..Len(pwms) : ItemError(pwms[i]) # "none"
    THEN LET i == CHOOSE k \in 1..Len(pwms) :
                      /\ ItemError(pwms[k]) # "none"
                      /\ \A j \in 1..(k - 1) : ItemError(pwms[j]) = "none"
         IN  ItemError(pwms[i])
    ELSE "none"

\* rc_channel_values = [65535] * 18, then rc_channel_values[channel_id - 1] = pwm
\* for each item in order (a later item overwrites an earlier one)
RcChannelValues(pwms) ==
    [slot \in 1..NUM_CHANNELS |->
        IF \E i \in 1..Len(pwms) : pwms[i][1] = slot
        THEN LET i == CHOOSE k \in 1..Len(pwms) :
                          /\ pwms[k][1] = slot
                          /\ \A j \in (k + 1)..Len(pwms) : pwms[j][1] # slot
             IN  pwms[i][2]
        ELSE IGNORE]

RcOverride(pwms) == [k |-> "rc_channels_override", v |-> RcChannelValues(pwms)]

\* set_rc_input_pwms(pwms): what it raises and what it sends
set_rc_input_pwms(pwms) ==
    IF ~LinkReady THEN [raised |-> "none", out |-> <<>>]
    ELSE IF PwmsError(pwms) # "none" THEN [raised |-> PwmsError(pwms), out |-> <<>>]
    ELSE [raised |-> "none", out |-> <<RcOverride(pwms)>>]

\* a range check that forgot the lower end
C2_MutInputInRange(m) == m <= Denom

\* -1 <= val <= 1, for val = m / Denom
InputInRange(m) == -Denom <= m /\ m <= Denom

\* a conversion that truncates instead of rounding
C4_MutRoundedPwm(m) == (m * 400 + 1500 * Denom) \div Denom

\* round(val * 400 + 1500), for val = m / Denom
RoundedPwm(m) == Round(m * 400 + 1500 * Denom, Denom)

\* min(max(pwm, 1100), 1900)
ClampPwm(pwm) == Min(Max(pwm, PWM_MIN), PWM_MAX)

\* the pwms dict set_rc_inputs builds: pwms[channel.value] = pwm
PwmsOf(values) ==
    [i \in 1..Len(values) |->
        <<InputChannelValue(values[i][1]), ClampPwm(RoundedPwm(values[i][2]))>>]

\* set_rc_inputs(values): what it raises and what it sends
set_rc_inputs(values) ==
    IF \E i \in 1..Len(values) : ~InputInRange(values[i][2])
    THEN [raised |-> "InputOutOfRange", out |-> <<>>]
    ELSE set_rc_input_pwms(PwmsOf(values))

\* the dict stop_thrusters passes
\* a stop that leaves the roll axis out
C25_MutStopInputs ==
    << <<"FORWARD", 0>>, <<"LATERAL", 0>>, <<"THROTTLE", 0>>,
       <<"YAW", 0>>, <<"PITCH", 0>> >>

StopInputs ==
    << <<"FORWARD", 0>>, <<"LATERAL", 0>>, <<"THROTTLE", 0>>,
       <<"YAW", 0>>, <<"PITCH", 0>>, <<"ROLL", 0>> >>

SetRcInputPwmsFrom(dicts) ==
    \E pwms \in dicts :
        /\ call' = [op |-> "set_rc_input_pwms", args |-> pwms]
        /\ LET r == set_rc_input_pwms(pwms)
           IN  raised' = r.raised /\ out' = r.out
        /\ events' = <<>>
        /\ UNCHANGED <<link_state, aux_state, task_vars, capture_vars>>

SetRcInputPwms == SetRcInputPwmsFrom(RawDicts)

SetRcInputPwmsFew == SetRcInputPwmsFrom(FewRawDicts)

SetRcInputsFrom(dicts) ==
    \E values \in dicts :
        /\ call' = [op |-> "set_rc_inputs", args |-> values]
        /\ LET r == set_rc_inputs(values)
           IN  raised' = r.raised /\ out' = r.out
        /\ events' = <<>>
        /\ UNCHANGED <<link_state, aux_state, task_vars, capture_vars>>

SetRcInputs == SetRcInputsFrom(InputDicts)

SetRcInputsFew == SetRcInputsFrom(FewInputDicts)

\* stop_thrusters(): set_rc_inputs of the six zeros
stop_thrusters == set_rc_inputs(StopInputs)

StopThrusters ==
    /\ call' = [op |-> "stop_thrusters", args |-> <<>>]
    /\ LET r == stop_thrusters
       IN  raised' = r.raised /\ out' = r.out
    /\ events' = <<>>
    /\ UNCHANGED <<link_state, aux_state, task_vars, capture_vars>>

-----------------------------------------------------------------------------
(* update *)

\* a timeout test that forgot the connection state
C6_MutTimedOut == since_last_msg > TIMEOUT

\* a timeout test that fires at the timeout itself
C7_MutTimedOut == connected /\ since_last_msg >= TIMEOUT

\* a timeout test that takes a timestamp never set for an expired one
C30_MutTimedOut == since_last_msg = NoneId \/ since_last_msg > TIMEOUT

\* self.connected and time.time() - self.last_msg_time > TIMEOUT
TimedOut == connected /\ since_last_msg > TIMEOUT

\* a connected signal on every heartbeat
C8_MutConnectedSignal == <<"connected">>

\* the signal of "if not self.connected"
ConnectedSignal == IF ~connected THEN <<"connected">> ELSE <<>>

\* an arm signal on every heartbeat
C9_MutArmSignal(a) == IF a THEN <<"armed">> ELSE <<"disarmed">>

\* the signal of "if armed != self.armed"
ArmSignal(a) ==
    IF a # armed THEN (IF a THEN <<"armed">> ELSE <<"disarmed">>) ELSE <<>>

\* a mode test that takes every heartbeat for a change
C22_MutModeChanged(id) == TRUE

\* mode_id != self.mode_id
ModeChanged(id) == id # mode_id

\* the second read: recv_match(type="VFR_HUD")
DepthSignal(hud) == IF hud THEN <<"depth_update">> ELSE <<>>

\* update() when wait_heartbeat returns msg = <<base_mode, custom_mode>>.
\* mode_signal is a pyqtSignal(str): for an id with no name the code emits None,
\* which the binding either passes on or refuses with a TypeError that ends
\* update() before the VFR_HUD read (emit_ok chooses).
UpdateHeartbeat(msg, hud, emit_ok) ==
    LET a == ArmedBit(msg[1])
        id == msg[2]
        refused == ModeChanged(id) /\ ModeNameOf(id) = "None" /\ ~emit_ok
    IN  /\ connected' = TRUE
        /\ since_last_msg' = 0
        /\ armed' = a
        /\ mode_id' = id
        /\ mode' = IF ModeChanged(id) THEN ModeNameOf(id) ELSE mode
        /\ raised' = IF refused THEN "TypeError" ELSE "none"
        /\ events' = ConnectedSignal \o ArmSignal(a)
                       \o (IF ModeChanged(id) /\ ~refused THEN <<"mode">> ELSE <<>>)
                       \o (IF refused THEN <<>> ELSE DepthSignal(hud))

\* a timeout branch that also forgets the arm state and the mode
C31_MutUpdateSilent(hud) ==
    /\ connected' = (connected /\ ~TimedOut)
    /\ armed' = (armed /\ ~TimedOut)
    /\ mode_id' = IF TimedOut THEN NoneId ELSE mode_id
    /\ mode' = IF TimedOut THEN "None" ELSE mode
    /\ events' = (IF TimedOut THEN <<"disconnected">> ELSE <<>>) \o DepthSignal(hud)
    /\ raised' = "none"
    /\ UNCHANGED since_last_msg

\* update() when wait_heartbeat returns None
UpdateSilent(hud) ==
    /\ connected' = (connected /\ ~TimedOut)
    /\ events' = (IF TimedOut THEN <<"disconnected">> ELSE <<>>) \o DepthSignal(hud)
    /\ raised' = "none"
    /\ UNCHANGED <<armed, mode_id, mode, since_last_msg>>

\* update(), the heartbeat read drawn from hbs or returning None
UpdateFrom(hbs) ==
    \E hud \in BOOLEAN :
        /\ out' = <<>>
        /\ \/ \E msg \in hbs, emit_ok \in BOOLEAN :
                /\ call' = [op |-> "update", args |-> <<msg>>]
                /\ UpdateHeartbeat(msg, hud, emit_ok)
           \/ /\ call' = [op |-> "update", args |-> <<>>]
              /\ UpdateSilent(hud)
        /\ last_conn_signal' =
               LastSignal(events', {"connected", "disconnected"}, last_conn_signal)
        /\ last_arm_signal' =
               LastSignal(events', {"armed", "disarmed"}, last_arm_signal)
        /\ UNCHANGED <<aux_state, task_vars, capture_vars>>

Update == UpdateFrom(Heartbeats)

UpdateLink == UpdateFrom(LinkHeartbeats)

\* a second passes on the clock time.time() reads
Tick ==
    /\ since_last_msg # NoneId
    /\ since_last_msg < MaxAge
    /\ since_last_msg' = since_last_msg + 1
    /\ call' = [op |-> "tick", args |-> <<>>]
    /\ raised' = "none"
    /\ out' = <<>>
    /\ events' = <<>>
    /\ elapsed' = Min(elapsed + 1, ElapsedCap)
    /\ UNCHANGED <<connected, armed, mode_id, mode, history>>
    /\ UNCHANGED <<aux_state, capture_vars, task_pc, task_fields>>

-----------------------------------------------------------------------------
(* arm, disarm, set_relay, turn_off_relays *)

\* a guard that refuses every command while disarmed
C12_MutRelayAllowed(state) == connected /\ armed

\* the guard of set_relay: not (not connected or (not armed and state))
RelayAllowed(state) == ~(~connected \/ (~armed /\ state))

\* set_relay(relay, state): the task it starts on the thread pool, if any
set_relay(relay, state) ==
    IF RelayAllowed(state)
    THEN <<[k |-> "relay_task", v |-> <<relay, IF state THEN 1 ELSE 0>>]>>
    ELSE <<>>

\* turn_off_relays(): set_relay(relay, False) for each relay, in order
RECURSIVE turn_off_from(_)
turn_off_from(i) ==
    IF i > Len(Relay) THEN <<>>
    ELSE set_relay(Relay[i], FALSE) \o turn_off_from(i + 1)

turn_off_relays == turn_off_from(1)

\* disarm(): turn_off_relays(), then link.arducopter_disarm()
disarm == turn_off_relays \o <<[k |-> "arducopter_disarm", v |-> <<>>]>>

\* an arm() that takes the vehicle for armed without waiting for a heartbeat
C21_MutArm ==
    /\ call' = [op |-> "arm", args |-> <<>>]
    /\ raised' = "none"
    /\ out' = <<[k |-> "arducopter_arm", v |-> <<>>]>>
    /\ events' = <<>>
    /\ armed' = TRUE
    /\ UNCHANGED <<connected, mode_id, mode, since_last_msg, history>>
    /\ UNCHANGED <<aux_state, task_vars, capture_vars>>

Arm ==
    /\ call' = [op |-> "arm", args |-> <<>>]
    /\ raised' = "none"
    /\ out' = <<[k |-> "arducopter_arm", v |-> <<>>]>>
    /\ events' = <<>>
    /\ UNCHANGED <<link_state, aux_state, task_vars, capture_vars>>

\* the tasks among the commands of a call
Tasks(cmds) == SelectSeq(cmds, LAMBDA c : c.k \in {"relay_task", "camera_task"})

RECURSIVE BagOf(_)
BagOf(cmds) ==
    IF cmds = <<>> THEN EmptyBag
    ELSE SetToBag({Head(cmds)}) (+) BagOf(Tail(cmds))

\* self._thread_manager.start(task), for each task among cmds
Started(cmds) == pool (+) BagOf(Tasks(cmds))

PoolHasRoom(cmds) == BagCardinality(pool) + Len(Tasks(cmds)) <= MaxPending

Disarm ==
    /\ PoolHasRoom(disarm)
    /\ call' = [op |-> "disarm", args |-> <<>>]
    /\ raised' = "none"
    /\ out' = disarm
    /\ events' = <<>>
    /\ pool' = Started(disarm)
    /\ UNCHANGED <<link_state, camera_states, relay_hw, cam_hw, task_vars, capture_vars>>

\* set_relay(relay, state) for the relays at the positions `relays`
SetRelayOf(relays) ==
    \E i \in relays, state \in BOOLEAN :
        /\ PoolHasRoom(set_relay(Relay[i], state))
        /\ call' = [op |-> "set_relay", args |-> <<<<Relay[i], IF state THEN 1 ELSE 0>>>>]
        /\ raised' = "none"
        /\ out' = set_relay(Relay[i], state)
        /\ events' = <<>>
        /\ pool' = Started(set_relay(Relay[i], state))
        /\ UNCHANGED <<link_state, camera_states, relay_hw, cam_hw, task_vars, capture_vars>>

SetRelay == SetRelayOf(1..Len(Relay))

SetRelayFirst == SetRelayOf({1})

\* the task of set_relay on a worker thread: sendall([relay.value, int(state)])
\* reaches the endpoint (ok), or connect/sendall raises and the task logs it
RelayTask(t, ok) ==
    /\ BagIn(t, pool)
    /\ t.k = "relay_task"
    /\ pool' = pool (-) SetToBag({t})
    /\ relay_hw' = IF ok
                   THEN [i \in DOMAIN relay_hw |->
                            IF Relay[i] = t.v[1] THEN t.v[2] = 1 ELSE relay_hw[i]]
                   ELSE relay_hw
    /\ UNCHANGED <<link_state, call, raised, out, events>>
    /\ UNCHANGED <<camera_states, cam_hw, task_vars, capture_vars>>

\* a worker thread runs any of the started relay tasks
RelayWorkerFrom(outcomes) ==
    \E t \in BagToSet(pool), ok \in outcomes : RelayTask(t, ok)

RelayWorker == RelayWorkerFrom(BOOLEAN)

\* the runs in which every relay send succeeds
RelaySent == RelayWorkerFrom({TRUE})

-----------------------------------------------------------------------------
(* set_mode, set_camera_enabled, send_camera_state *)

\* the names a caller may pass to set_mode; one is in no mode_mapping()
ModeArgs == ModeNames \cup {"NO_SUCH_MODE"}

\* a lookup that falls back to id 0 for a name it does not know
C19_Mutset_mode(name) ==
    <<[k |-> "set_mode",
       v |-> <<IF name \in ModeNames THEN mode_mapping(name) ELSE 0>>]>>

\* set_mode(mode): link.set_mode(mode_id) if the name is in mode_mapping(),
\* a log line otherwise
set_mode(name) ==
    IF name \in ModeNames
    THEN <<[k |-> "set_mode", v |-> <<mode_mapping(name)>>]>>
    ELSE <<>>

SetMode ==
    \E name \in ModeArgs :
        /\ call' = [op |-> "set_mode", args |-> <<name>>]
        /\ raised' = "none"
        /\ out' = set_mode(name)
        /\ events' = <<>>
        /\ UNCHANGED <<link_state, aux_state, task_vars, capture_vars>>

\* cams_dict: {cam.value: val}, as the values in the order of Camera
CamsDict(states) == [i \in 1..Len(Camera) |-> IF states[i] THEN 1 ELSE 0]

\* send_camera_state(): the snapshot, the signal, then the task is started
send_camera_state(states) ==
    [events |-> <<"cameras_set">>,
     out    |-> <<[k |-> "camera_task", v |-> CamsDict(states)]>>]

\* a map update that does not look at the connection
C20_Mutset_camera_enabled(i, enabled) ==
    LET states == [camera_states EXCEPT ![i] = enabled]
    IN  [states |-> states] @@ send_camera_state(states)

\* set_camera_enabled(cam, enabled), cam the i-th camera: the map, the
\* signals and the commands it leaves behind
set_camera_enabled(i, enabled) ==
    IF ~connected
    THEN [states |-> camera_states, events |-> <<>>, out |-> <<>>]
    ELSE LET states == [camera_states EXCEPT ![i] = enabled]
         IN  [states |-> states] @@ send_camera_state(states)

\* set_camera_enabled(cam, enabled) for the cameras at the positions `cams`
SetCameraEnabledOf(cams) ==
    \E i \in cams, enabled \in BOOLEAN :
        LET r == set_camera_enabled(i, enabled)
        IN  /\ PoolHasRoom(r.out)
            /\ call' = [op |-> "set_camera_enabled",
                        args |-> <<<<i, IF enabled THEN 1 ELSE 0>>>>]
            /\ raised' = "none"
            /\ camera_states' = r.states
            /\ events' = r.events
            /\ out' = r.out
            /\ pool' = Started(r.out)
            /\ UNCHANGED <<link_state, relay_hw, cam_hw, task_vars, capture_vars>>

SetCameraEnabled == SetCameraEnabledOf(1..Len(Camera))

SetCameraEnabledFirst == SetCameraEnabledOf({1})

\* a camera task that reads self.camera_states when it runs
C24_MutCameraTask(t, ok) ==
    /\ BagIn(t, pool)
    /\ t.k = "camera_task"
    /\ pool' = pool (-) SetToBag({t})
    /\ cam_hw' = IF ok THEN CamsDict(camera_states) ELSE cam_hw
    /\ UNCHANGED <<link_state, call, raised, out, events>>
    /\ UNCHANGED <<camera_states, relay_hw, task_vars, capture_vars>>

\* a camera task without the except clause: the error of a failed send leaves it
C23_MutCameraTask(t, ok) ==
    /\ BagIn(t, pool)
    /\ t.k = "camera_task"
    /\ pool' = pool (-) SetToBag({t})
    /\ cam_hw' = IF ok THEN t.v ELSE cam_hw
    /\ raised' = IF ok THEN raised ELSE "OSError"
    /\ UNCHANGED <<link_state, call, out, events>>
    /\ UNCHANGED <<camera_states, relay_hw, task_vars, capture_vars>>

\* the task of send_camera_state on a worker thread: json.dumps(cams_dict)
\* reaches the endpoint (ok), or connect/sendall raises and the task logs it
CameraTask(t, ok) ==
    /\ BagIn(t, pool)
    /\ t.k = "camera_task"
    /\ pool' = pool (-) SetToBag({t})
    /\ cam_hw' = IF ok THEN t.v ELSE cam_hw
    /\ UNCHANGED <<link_state, call, raised, out, events>>
    /\ UNCHANGED <<camera_states, relay_hw, task_vars, capture_vars>>

\* a worker thread runs any of the started camera tasks
CameraWorker ==
    \E t \in BagToSet(pool), ok \in BOOLEAN : CameraTask(t, ok)

-----------------------------------------------------------------------------
(* ButtonDocking: constants and inputs *)

\* the float constants of button_docking.py, as <<numerator, denominator>>
TRANSLATION_SENSITIVITY == <<45, 100>>

ROTATIONAL_SENSITIVITY == <<55, 100>>

CRAWL_SPEED == <<40, 100>>

FORWARD_SPEED == <<90, 100>>

RAM_SPEED == <<90, 100>>

RAM_THROTTLE == <<-8, 100>>

ZERO == <<0, 100>>

START_WIDTH_FRACTION == <<35, 1000>>

START_HEIGHT_FRACTION == <<35, 1000>>

STOP_WIDTH_FRACTION == <<15, 100>>

STOP_HEIGHT_FRACTION == <<15, 100>>

END_WIDTH_FRACTION == <<3, 10>>

END_HEIGHT_FRACTION == <<3, 10>>

\* [-1, -1], the value of the three lists before any target was seen;
\* button_pos is kept in half pixels
NoTarget == <<-2, -2>>

NoDims == <<-1, -1>>

\* frame.cv_img.shape: <<height, width>> of the dual-camera frame
FrameShape == <<100, 200>>

\* cv2.boundingRect of the best contour, <<w, h>>: below, at and past the
\* start, stop and end fractions of a 100 x 100 half frame, by width and by
\* height
Boxes == {<<3, 3>>, <<4, 3>>, <<3, 4>>, <<15, 3>>, <<3, 15>>, <<30, 30>>,
          <<31, 3>>, <<3, 31>>}

\* <<x, y, w, h>>: each box in the top left and in the bottom right corner
\* of the half frame, and the smallest box in the bottom right corner of the
\* whole frame that get_button_contour searches
Rects ==
    {<<0, 0, b[1], b[2]>> : b \in Boxes}
        \cup {<<FrameShape[2] \div 2 - b[1], FrameShape[1] - b[2], b[1], b[2]>> :
                  b \in Boxes}
        \cup {<<FrameShape[2] - 3, FrameShape[1] - 3, 3, 3>>}

\* get_button_contour found nothing: high_score = 0
NoContour == <<>>

\* the instants at which the task's clock is read, as seconds after
\* initialize()
TaskTimes ==
    {0, 1, MIN_TASK_DURATION, MIN_TASK_DURATION + 1,
     MAX_TASK_DURATION - 1, MAX_TASK_DURATION, ElapsedCap}

-----------------------------------------------------------------------------
(* ButtonDocking: arithmetic *)

\* the product of two fractions
Mul(a, b) == <<a[1] * b[1], a[2] * b[2]>>

\* -math.log(w / W) in thousandths, to the nearest, for the ratios of Boxes
NegLogMilli(w, W) ==
    CASE 100 * w = 3 * W  -> 3507
      [] 100 * w = 4 * W  -> 3219
      [] 100 * w = 15 * W -> 1897
      [] 100 * w = 30 * W -> 1204
      [] 100 * w = 31 * W -> 1171

\* scale = max(-math.log(button_dims[0] / image_dims[0]) / 10, 0.1)
Scale == <<Max(NegLogMilli(button_dims[1], image_dims[1]), 1000), 10000>>

\* horizontal_move(): (pos[0] - img[0] / 2) / (img[0] / 2), pos in half pixels
horizontal_move == <<button_pos[1] - image_dims[1], image_dims[1]>>

\* vertical_move(): -1 * (pos[1] - img[1] * 0.4) / (img[1] / 2)
vertical_move == <<-(5 * button_pos[2] - 4 * image_dims[2]), 5 * image_dims[2]>>

\* d >= fraction * img
AtLeast(d, fraction, img) == d * fraction[2] >= fraction[1] * img

\* a test with the fraction on the wrong side: fraction * d > img
C16_MutExceeds(d, fraction, img) == fraction[1] * d > img * fraction[2]

\* d > fraction * img
Exceeds(d, fraction, img) == d * fraction[2] > fraction[1] * img

-----------------------------------------------------------------------------
(* set_rc_inputs on the task's float values *)

\* value < -1 or value > 1, negated, for value = v[1] / v[2]
FracInRange(v) == -v[2] <= v[1] /\ v[1] <= v[2]

\* round(value * 400 + 1500); every denominator here is a multiple of 100,
\* and rounding to even commutes with adding 1500
RoundedPwmFrac(v) == 1500 + Round(4 * v[1], v[2] \div 100)

PwmsOfFrac(values) ==
    [i \in 1..Len(values) |->
        <<InputChannelValue(values[i][1]), ClampPwm(RoundedPwmFrac(values[i][2]))>>]

\* set_rc_inputs(values), values a dict of <<channel, <<num, den>> >>
set_rc_inputs_frac(values) ==
    IF \E i \in 1..Len(values) : ~FracInRange(values[i][2])
    THEN [raised |-> "InputOutOfRange", out |-> <<>>]
    ELSE set_rc_input_pwms(PwmsOfFrac(values))

-----------------------------------------------------------------------------
(* ButtonDocking: initialize, handle_frame, periodic, is_finished, end *)

CrawlInputs ==
    << <<"FORWARD", CRAWL_SPEED>>, <<"LATERAL", ZERO>>, <<"THROTTLE", ZERO>>,
       <<"PITCH", ZERO>>, <<"YAW", ZERO>>, <<"ROLL", ZERO>> >>

SteerInputs ==
    << <<"FORWARD", Mul(Scale, FORWARD_SPEED)>>,
       <<"LATERAL", ZERO>>,
       <<"THROTTLE", Mul(Mul(vertical_move, Scale), TRANSLATION_SENSITIVITY)>>,
       <<"PITCH", Mul(Mul(vertical_move, Scale), ROTATIONAL_SENSITIVITY)>>,
       <<"YAW", Mul(Mul(horizontal_move, Scale), ROTATIONAL_SENSITIVITY)>>,
       <<"ROLL", ZERO>> >>

RamInputs ==
    << <<"FORWARD", RAM_SPEED>>, <<"LATERAL", ZERO>>, <<"THROTTLE", RAM_THROTTLE>>,
       <<"PITCH", ZERO>>, <<"YAW", ZERO>>, <<"ROLL", ZERO>> >>

\* the test that moves the task to steering
ReachedStart ==
    \/ AtLeast(button_dims[1], START_WIDTH_FRACTION, image_dims[1])
    \/ AtLeast(button_dims[2], START_HEIGHT_FRACTION, image_dims[2])

\* the test that moves the task to ramming
ReachedStop ==
    \/ AtLeast(button_dims[1], STOP_WIDTH_FRACTION, image_dims[1])
    \/ AtLeast(button_dims[2], STOP_HEIGHT_FRACTION, image_dims[2])

\* a steering phase that falls back to crawling when the box is small again
C13_MutNextState ==
    CASE task_state = 0 -> IF ReachedStart THEN 1 ELSE 0
      [] task_state = 1 -> IF ReachedStop THEN 2
                           ELSE IF ReachedStart THEN 1 ELSE 0
      [] task_state = 2 -> 2

\* self.state after a periodic() that got past the first return
NextState ==
    CASE task_state = 0 -> IF ReachedStart THEN 1 ELSE 0
      [] task_state = 1 -> IF ReachedStop THEN 2 ELSE 1
      [] task_state = 2 -> 2

\* a periodic() that asks for manual mode on every pass in Crawl
C26_Mutperiodic ==
    IF button_pos = NoTarget
    THEN [state |-> task_state, raised |-> "none", out |-> <<>>]
    ELSE CASE task_state = 0 ->
                  LET r == set_rc_inputs_frac(CrawlInputs)
                  IN  [state  |-> NextState,
                       raised |-> r.raised,
                       out    |-> set_mode("MANUAL") \o r.out]
           [] task_state = 1 ->
                  LET r == set_rc_inputs_frac(SteerInputs)
                  IN  [state |-> NextState, raised |-> r.raised, out |-> r.out]
           [] task_state = 2 ->
                  LET r == set_rc_inputs_frac(RamInputs)
                  IN  [state |-> NextState, raised |-> r.raised, out |-> r.out]

\* periodic(): the state, the exception and the commands it leaves behind
periodic ==
    IF button_pos = NoTarget
    THEN [state |-> task_state, raised |-> "none", out |-> <<>>]
    ELSE CASE task_state = 0 ->
                  LET r == set_rc_inputs_frac(CrawlInputs)
                  IN  [state  |-> NextState,
                       raised |-> r.raised,
                       out    |-> (IF ReachedStart THEN set_mode("MANUAL") ELSE <<>>)
                                      \o r.out]
           [] task_state = 1 ->
                  LET r == set_rc_inputs_frac(SteerInputs)
                  IN  [state |-> NextState, raised |-> r.raised, out |-> r.out]
           [] task_state = 2 ->
                  LET r == set_rc_inputs_frac(RamInputs)
                  IN  [state |-> NextState, raised |-> r.raised, out |-> r.out]

\* handle_frame(frame): the three lists after it, for the rectangle found
handle_frame(rect) ==
    IF rect = NoContour
    THEN <<button_pos, button_dims, image_dims>>
    ELSE << <<2 * rect[1] + rect[3], 2 * rect[2] + rect[4]>>,
            <<rect[3], rect[4]>>,
            <<FrameShape[2] \div 2, FrameShape[1]>> >>

\* a test that lets the maximum duration pass before it ends the task
C14_Mutis_finished ==
    /\ elapsed >= MIN_TASK_DURATION
    /\ \/ Exceeds(button_dims[1], END_WIDTH_FRACTION, image_dims[1])
       \/ Exceeds(button_dims[2], END_HEIGHT_FRACTION, image_dims[2])
       \/ elapsed > MAX_TASK_DURATION

\* a test without the minimum duration
C15_Mutis_finished ==
    \/ Exceeds(button_dims[1], END_WIDTH_FRACTION, image_dims[1])
    \/ Exceeds(button_dims[2], END_HEIGHT_FRACTION, image_dims[2])
    \/ elapsed >= MAX_TASK_DURATION

\* is_finished()
is_finished ==
    /\ elapsed >= MIN_TASK_DURATION
    /\ \/ Exceeds(button_dims[1], END_WIDTH_FRACTION, image_dims[1])
       \/ Exceeds(button_dims[2], END_HEIGHT_FRACTION, image_dims[2])
       \/ elapsed >= MAX_TASK_DURATION

\* an end() that only stops the thrusters
C17_Mutend == stop_thrusters.out

\* end(): set_mode("MANUAL"), then stop_thrusters()
end == set_mode("MANUAL") \o stop_thrusters.out

Initialize ==
    /\ task_pc = "constructed"
    /\ call' = [op |-> "initialize", args |-> <<>>]
    /\ raised' = "none"
    /\ out' = stop_thrusters.out \o set_mode("ALT_HOLD")
    /\ events' = <<>>
    /\ elapsed' = 0
    /\ task_state' = 0
    /\ task_pc' = "initialized"
    /\ UNCHANGED <<link_state, aux_state, capture_vars, button_pos, button_dims, image_dims>>

HandleFrame ==
    \E rect \in Rects \cup {NoContour} :
        /\ task_pc # "ended"
        /\ call' = [op |-> "handle_frame", args |-> <<rect>>]
        /\ raised' = "none"
        /\ out' = <<>>
        /\ events' = <<>>
        /\ button_pos' = handle_frame(rect)[1]
        /\ button_dims' = handle_frame(rect)[2]
        /\ image_dims' = handle_frame(rect)[3]
        /\ UNCHANGED <<link_state, aux_state, capture_vars, task_pc, task_state, elapsed>>

Periodic ==
    /\ task_pc = "initialized"
    /\ call' = [op |-> "periodic", args |-> <<>>]
    /\ raised' = periodic.raised
    /\ out' = periodic.out
    /\ events' = <<>>
    /\ task_state' = periodic.state
    /\ UNCHANGED <<link_state, aux_state, capture_vars, task_pc, elapsed>>
    /\ UNCHANGED <<button_pos, button_dims, image_dims>>

End ==
    /\ task_pc = "initialized"
    /\ call' = [op |-> "end", args |-> <<>>]
    /\ raised' = "none"
    /\ out' = end
    /\ events' = <<>>
    /\ task_pc' = "ended"
    /\ UNCHANGED <<link_state, aux_state, capture_vars, task_fields, elapsed>>

\* the clock moves on to the next of the instants TaskTimes
TaskTick ==
    /\ task_pc = "initialized"
    /\ elapsed < ElapsedCap
    /\ elapsed' = CHOOSE t \in TaskTimes :
                      t > elapsed /\ \A u \in TaskTimes : u > elapsed => t <= u
    /\ since_last_msg' = IF since_last_msg = NoneId THEN NoneId
                         ELSE Min(since_last_msg + (elapsed' - elapsed), MaxAge)
    /\ call' = [op |-> "tick", args |-> <<>>]
    /\ raised' = "none"
    /\ out' = <<>>
    /\ events' = <<>>
    /\ UNCHANGED <<connected, armed, mode_id, mode, history>>
    /\ UNCHANGED <<aux_state, capture_vars, task_pc, task_fields>>

-----------------------------------------------------------------------------
(* The specification *)

\* the state after __init__
\* CaptureThread and TransectWidget after __init__, which empties the folder
InitCapture ==
    /\ image_num = 0
    /\ picture_paths = <<>>
    /\ frames = <<>>
    /\ capture_pc = "idle"
    /\ image_to_save = NoImage
    /\ thread_image_num = 0
    /\ run_pc = "finished"
    /\ corrected_image = NoImage
    /\ saved = {}

Init ==
    /\ connected = FALSE
    /\ armed = FALSE
    /\ mode_id = NoneId
    /\ mode = "None"
    /\ since_last_msg = NoneId
    /\ call = NoCall
    /\ raised = "none"
    /\ out = <<>>
    /\ events = <<>>
    /\ last_conn_signal = "never"
    /\ last_arm_signal = "never"
    /\ camera_states = InitCameraStates
    /\ pool = EmptyBag
    /\ relay_hw = [i \in 1..Len(Relay) |-> FALSE]
    /\ cam_hw = <<>>
    /\ task_pc = "constructed"
    /\ task_state = 0
    /\ button_pos = NoTarget
    /\ button_dims = NoDims
    /\ image_dims = NoDims
    /\ elapsed = ElapsedCap
    /\ InitCapture

Next ==
    \/ Update
    \/ Tick
    \/ Arm
    \/ SetRcInputPwms
    \/ SetRcInputs
    \/ StopThrusters

Spec == Init /\ [][Next]_vars

\* arming and relays, with the workers of the thread pool; every send succeeds
NextRelay ==
    \/ UpdateLink
    \/ Tick
    \/ Arm
    \/ Disarm
    \/ SetRelay
    \/ RelaySent

SpecRelay == Init /\ [][NextRelay]_vars

\* modes and cameras, with the workers of the thread pool
NextCam ==
    \/ UpdateLink
    \/ Tick
    \/ SetMode
    \/ SetCameraEnabled
    \/ CameraWorker

SpecCam == Init /\ [][NextCam]_vars

\* the docking task on a vehicle whose link comes and goes
NextTask ==
    \/ UpdateLink
    \/ TaskTick
    \/ Initialize
    \/ HandleFrame
    \/ Periodic
    \/ End

SpecTask == Init /\ [][NextTask]_vars

\* every method of VehicleControl, on the control thread
NextVehicle ==
    \/ UpdateLink
    \/ Tick
    \/ Arm
    \/ Disarm
    \/ SetRelayFirst
    \/ SetMode
    \/ SetCameraEnabledFirst
    \/ SetRcInputPwmsFew
    \/ SetRcInputsFew
    \/ StopThrusters

SpecVehicle == Init /\ [][NextVehicle]_vars

\* the two dispatching methods and the worker threads, whose sends can fail
NextSide ==
    \/ UpdateLink \/ SetRelayFirst \/ SetCameraEnabledFirst
    \/ RelayWorker \/ CameraWorker

SpecSide == Init /\ [][NextSide]_vars

-----------------------------------------------------------------------------
(* TransectWidget.capture and CaptureThread *)

\* cv2.imwrite to transect_image(num).png: the file of that number is created
\* or overwritten
Written(num, image) == {f \in saved : f[1] # num} \cup {<<num, image>>}

\* capture() up to the first assignment of set_image: the frame is copied,
\* image_num is incremented, capture_thread.image_to_save is assigned
CaptureSetImage ==
    \E frame \in Frames :
        /\ capture_pc = "idle"
        /\ image_num < MaxCaptures
        /\ image_num' = image_num + 1
        /\ image_to_save' = frame
        /\ frames' = Append(frames, frame)
        /\ capture_pc' = "set_image"
        /\ call' = [op |-> "capture", args |-> <<frame>>]
        /\ raised' = "none"
        /\ out' = <<>>
        /\ events' = <<>>
        /\ UNCHANGED <<picture_paths, thread_image_num, run_pc, corrected_image, saved>>
        /\ UNCHANGED <<link_state, aux_state, task_vars>>

\* the rest of capture(): capture_thread.image_num is assigned, the path is
\* recorded, and the thread is started if it is not running
CaptureStart ==
    /\ capture_pc = "set_image"
    /\ thread_image_num' = image_num
    /\ picture_paths' = Append(picture_paths, image_num)
    /\ run_pc' = IF run_pc = "finished" THEN "started" ELSE run_pc
    /\ capture_pc' = "idle"
    /\ UNCHANGED <<image_num, frames, image_to_save, corrected_image, saved>>
    /\ UNCHANGED <<link_state, call, raised, out, events, aux_state, task_vars>>

\* run(), line 28: undistort(self.image_to_save, ...)
RunUndistort ==
    /\ run_pc = "started"
    /\ corrected_image' = image_to_save
    /\ run_pc' = "undistorted"
    /\ UNCHANGED <<image_num, picture_paths, frames, capture_pc, image_to_save,
                   thread_image_num, saved>>
    /\ UNCHANGED <<link_state, call, raised, out, events, aux_state, task_vars>>

\* run(), lines 30-32: the file name from self.image_num, then cv2.imwrite
RunWrite ==
    /\ run_pc = "undistorted"
    /\ saved' = Written(thread_image_num, corrected_image)
    /\ run_pc' = "written"
    /\ UNCHANGED <<image_num, picture_paths, frames, capture_pc, image_to_save,
                   thread_image_num, corrected_image>>
    /\ UNCHANGED <<link_state, call, raised, out, events, aux_state, task_vars>>

\* run() logs and returns: isRunning() is false from here on
RunFinish ==
    /\ run_pc = "written"
    /\ run_pc' = "finished"
    /\ UNCHANGED <<image_num, picture_paths, frames, capture_pc, image_to_save,
                   thread_image_num, corrected_image, saved>>
    /\ UNCHANGED <<link_state, call, raised, out, events, aux_state, task_vars>>

NextCapture ==
    CaptureSetImage \/ CaptureStart \/ RunUndistort \/ RunWrite \/ RunFinish

SpecCapture == Init /\ [][NextCapture]_vars

-----------------------------------------------------------------------------
(* The conversion of set_rc_inputs on pairs of values *)

\* values <<n, PwmGrid>> of [-1, 1] next to both ends and around 0
PwmProbes ==
    {<<n, PwmGrid>> : n \in (-PwmGrid..(PwmWindow - PwmGrid))
                              \cup (-PwmWindow..PwmWindow)
                              \cup ((PwmGrid - PwmWindow)..PwmGrid)}

\* a conversion with the sign of the value turned round
C27_MutPwm(v) == ClampPwm(Round(1500 * v[2] - 400 * v[1], v[2]))

\* pwm = round(val * 400 + 1500); pwm = min(max(pwm, 1100), 1900),
\* for val = v[1] / v[2]
Pwm(v) == ClampPwm(Round(400 * v[1] + 1500 * v[2], v[2]))

\* a pair of values handed to the conversion
InitPwm ==
    \E a \in PwmProbes, b \in PwmProbes :
        /\ call = [op |-> "pwm", args |-> <<a, b>>]
        /\ out = <<>>
        /\ connected = FALSE
        /\ armed = FALSE
        /\ mode_id = NoneId
        /\ mode = "None"
        /\ since_last_msg = NoneId
        /\ raised = "none"
        /\ events = <<>>
        /\ last_conn_signal = "never"
        /\ last_arm_signal = "never"
        /\ camera_states = InitCameraStates
        /\ pool = EmptyBag
        /\ relay_hw = [i \in 1..Len(Relay) |-> FALSE]
        /\ cam_hw = <<>>
        /\ task_pc = "constructed"
        /\ task_state = 0
        /\ button_pos = NoTarget
        /\ button_dims = NoDims
        /\ image_dims = NoDims
        /\ elapsed = ElapsedCap
        /\ InitCapture

\* both values are converted
ApplyPwm ==
    /\ call.op = "pwm"
    /\ out = <<>>
    /\ out' = <<Pwm(call.args[1]), Pwm(call.args[2])>>
    /\ UNCHANGED <<link_state, call, raised, events, aux_state, task_vars, capture_vars>>

SpecPwm == InitPwm /\ [][ApplyPwm]_vars

-----------------------------------------------------------------------------
(* Claims *)

RcOps == {"set_rc_input_pwms", "set_rc_inputs", "stop_thrusters"}

RcSent == {i \in 1..Len(out) : out[i].k = "rc_channels_override"}

\* C1: every RC-override command that is transmitted has exactly 18 slots,
\* each the ignore sentinel 65535 or an integer in [1100, 1900].
C1_RcCommandInSafeRange ==
    \A i \in RcSent :
        /\ DOMAIN out[i].v = 1..18
        /\ \A slot \in 1..18 :
              \/ out[i].v[slot] = 65535
              \/ out[i].v[slot] \in 1100..1900

\* C1 witness: a command with both ends of the range in it was transmitted.
C1_Witness ==
    /\ call.op = "set_rc_input_pwms"
    /\ RcSent # {}
    /\ out[1].v[1] = 1100
    /\ out[1].v[18] = 1900
    /\ out[1].v[2] = 65535

\* C2: set_rc_inputs with any value outside [-1, 1] anywhere in the map
\* raises the out-of-range error and transmits nothing, in every link state.
C2_BatchRejected ==
    (/\ call.op = "set_rc_inputs"
     /\ \E i \in 1..Len(call.args) :
            call.args[i][2] < -Denom \/ call.args[i][2] > Denom)
        => (raised = "InputOutOfRange" /\ out = <<>>)

\* C2 witness: connected and armed, a good value first and a bad one second.
C2_Witness ==
    /\ call.op = "set_rc_inputs"
    /\ connected /\ armed
    /\ Len(call.args) = 2
    /\ call.args[1][2] = Denom
    /\ call.args[2][2] = -(Denom + 1)
    /\ raised = "InputOutOfRange"

\* C3: nothing is queued: a command is transmitted only by the RC call of this
\* step and only with connected and armed both true, and it carries nothing
\* but that call's own arguments; set_rc_input_pwms while disconnected or
\* disarmed returns without raising and without transmitting; no update, tick
\* or arm step transmits an RC command.
C3_NoQueuedCommand ==
    /\ RcSent # {} =>
          /\ connected /\ armed
          /\ call.op \in RcOps
          /\ Len(out) = 1
          /\ \A slot \in 1..18 :
                LET pwm == out[1].v[slot]
                IN  CASE call.op = "set_rc_input_pwms" ->
                             IF \E i \in 1..Len(call.args) : call.args[i][1] = slot
                             THEN \E i \in 1..Len(call.args) : call.args[i] = <<slot, pwm>>
                             ELSE pwm = 65535
                      [] call.op = "set_rc_inputs" ->
                             pwm # 65535 =>
                                 \E i \in 1..Len(call.args) :
                                     InputChannelValue(call.args[i][1]) = slot
                      [] call.op = "stop_thrusters" -> pwm \in {1500, 65535}
    /\ (call.op = "set_rc_input_pwms" /\ ~(connected /\ armed))
          => (out = <<>> /\ raised = "none")
    /\ call.op \notin RcOps => RcSent = {}

\* C3 witness: a valid command was dropped while connected but disarmed.
C3_Witness ==
    /\ call.op = "set_rc_input_pwms"
    /\ connected /\ ~armed
    /\ call.args = << <<1, 1100>> >>
    /\ out = <<>>
    /\ last_arm_signal = "disarmed"

\* round() of num / den as the claim reads it: the nearest integer, the even
\* one of the two when num / den lies halfway
IsRounded(r, num, den) ==
    /\ 2 * (r * den - num) <= den
    /\ 2 * (num - r * den) <= den
    /\ (2 * (r * den - num) = den \/ 2 * (num - r * den) = den) => r % 2 = 0

\* C4: set_rc_inputs with every value in [-1, 1] raises nothing; connected and
\* armed, it transmits one command whose slot for each supplied channel holds
\* round(value * 400 + 1500), a value already in [1100, 1900], and whose
\* other slots hold 65535.
C4_InRangeInputsSent ==
    (/\ call.op = "set_rc_inputs"
     /\ \A i \in 1..Len(call.args) :
            -Denom <= call.args[i][2] /\ call.args[i][2] <= Denom)
        => /\ raised = "none"
           /\ (connected /\ armed) =>
                /\ Len(out) = 1
                /\ out[1].k = "rc_channels_override"
                /\ DOMAIN out[1].v = 1..18
                /\ \A i \in 1..Len(call.args) :
                      LET pwm == out[1].v[InputChannelValue(call.args[i][1])]
                      IN  /\ IsRounded(pwm, call.args[i][2] * 400 + 1500 * Denom, Denom)
                          /\ pwm \in 1100..1900
                /\ \A slot \in 1..18 :
                      (\A i \in 1..Len(call.args) :
                            InputChannelValue(call.args[i][1]) # slot)
                          => out[1].v[slot] = 65535

\* C4 witness: 3/32 on FORWARD (1537.5, rounded to 1538) and -1 on YAW were sent.
C4_Witness ==
    /\ call.op = "set_rc_inputs"
    /\ call.args = << <<"FORWARD", 3>>, <<"YAW", -Denom>> >>
    /\ RcSent # {}
    /\ out[1].v[5] = 1538
    /\ out[1].v[4] = 1100

\* the error of the first offending item of a pwms dict, as the amended C5
\* reads it: within an item the channel id counts before the PWM value
FirstOffence(pwms) ==
    LET bad(i) == pwms[i][1] \notin 1..18 \/ pwms[i][2] \notin 1100..1900
    IN  IF \E i \in 1..Len(pwms) : bad(i)
        THEN LET k == CHOOSE i \in 1..Len(pwms) :
                          bad(i) /\ \A j \in 1..(i - 1) : ~bad(j)
             IN  IF pwms[k][1] \notin 1..18 THEN "ChannelIdNotExist"
                 ELSE "PwmOutOfRange"
        ELSE "none"

\* C5 (as claimed): set_rc_input_pwms raises the invalid-channel error for
\* every channel id outside 1..18, the out-of-range error for every PWM value
\* outside [1100, 1900], accepts ids 1 and 18 with an in-range PWM, and
\* transmits nothing on either failure.
C5_Original ==
    call.op = "set_rc_input_pwms" =>
        /\ (\E i \in 1..Len(call.args) : call.args[i][1] \notin 1..18)
              => (raised = "ChannelIdNotExist" /\ out = <<>>)
        /\ (/\ \A i \in 1..Len(call.args) : call.args[i][1] \in 1..18
            /\ \E i \in 1..Len(call.args) : call.args[i][2] \notin 1100..1900)
              => (raised = "PwmOutOfRange" /\ out = <<>>)
        /\ (\A i \in 1..Len(call.args) :
                call.args[i][1] \in 1..18 /\ call.args[i][2] \in 1100..1900)
              => raised = "none"

\* C5 (amended): connected and armed, set_rc_input_pwms raises the error of
\* the first offending item in map order (the invalid-channel error when that
\* item's channel id is outside 1..18, else the out-of-range error for its PWM
\* outside [1100, 1900]) and transmits nothing, and it accepts and transmits a
\* map with no offending item, ids 1 and 18 included; disconnected or
\* disarmed, it raises nothing and transmits nothing whatever the map holds.
C5_ValidationWhenLinkReady ==
    call.op = "set_rc_input_pwms" =>
        /\ (connected /\ armed) =>
              /\ raised = FirstOffence(call.args)
              /\ raised # "none" => out = <<>>
              /\ raised = "none" => RcSent = {1}
        /\ ~(connected /\ armed) => (raised = "none" /\ out = <<>>)

\* C5 witness: connected and armed, a bad PWM value on channel 1 comes before
\* the bad channel id 19, and the out-of-range error is the one raised.
C5_Witness ==
    /\ call.op = "set_rc_input_pwms"
    /\ connected /\ armed
    /\ call.args = << <<1, 1901>>, <<19, 1500>> >>
    /\ raised = "PwmOutOfRange"
    /\ out = <<>>

SilentUpdate == call'.op = "update" /\ call'.args = <<>>

HeartbeatUpdate == call'.op = "update" /\ call'.args # <<>>

Count(signals, name) == Cardinality({i \in 1..Len(signals) : signals[i] = name})

\* C6: the disconnected signal fires exactly once per Connected-to-Disconnected
\* transition: a step emits it (once) exactly when connected goes from true to
\* false, and no step emits it while disconnected or never connected; the
\* signal before it, if any, was a connected signal.
C6_DisconnectOncePerEdge ==
    [][/\ Count(events', "disconnected") = (IF connected /\ ~connected' THEN 1 ELSE 0)
       /\ ~connected => Count(events', "disconnected") = 0
       /\ Count(events', "disconnected") > 0 => last_conn_signal = "connected"
       /\ (connected /\ ~connected') => (SilentUpdate /\ since_last_msg > 2)]_vars

\* C6 witness: a second silent update after the disconnect, which emitted nothing.
C6_Witness ==
    /\ call.op = "update" /\ call.args = <<>>
    /\ ~connected
    /\ last_conn_signal = "disconnected"
    /\ Count(events, "disconnected") = 0

C8_ConnectOncePerEdge ==
    [][/\ Count(events', "connected") = (IF HeartbeatUpdate /\ ~connected THEN 1 ELSE 0)
       /\ HeartbeatUpdate => connected'
       /\ Count(events', "connected") > 0 => last_conn_signal \in {"never", "disconnected"}
       /\ last_conn_signal' = "connected" <=> connected']_vars

\* C8 witness: a reconnect: a connected signal after an earlier disconnect.
C8_Witness ==
    /\ call.op = "update"
    /\ Count(events, "connected") = 1
    /\ connected
    /\ since_last_msg = 0
    /\ mode_id = 19
    /\ armed
    /\ Count(events, "armed") = 0
    /\ Count(events, "mode") = 0

\* C9: arm signals are edge-triggered: an update emits armed (once) exactly
\* when its heartbeat has bit 0x80 of base_mode set and the stored state is
\* disarmed, disarmed (once) exactly when the bit is clear and the stored state
\* is armed, nothing when the bit equals the stored state, and the stored state
\* becomes the bit; armed and disarmed signals alternate, armed first.
C9_ArmSignalsOnEdges ==
    [][LET bit == (call'.args[1][1] \div 128) % 2 = 1
       IN  /\ Count(events', "armed") = (IF HeartbeatUpdate /\ bit /\ ~armed THEN 1 ELSE 0)
           /\ Count(events', "disarmed") = (IF HeartbeatUpdate /\ ~bit /\ armed THEN 1 ELSE 0)
           /\ HeartbeatUpdate => (armed' <=> bit)
           /\ ~HeartbeatUpdate => (armed' <=> armed)
           /\ Count(events', "armed") > 0 => last_arm_signal \in {"never", "disarmed"}
           /\ Count(events', "disarmed") > 0 => last_arm_signal = "armed"]_vars

\* C9 witness: a second heartbeat with the armed bit clear after a disarmed
\* signal: nothing is emitted again.
C9_Witness ==
    /\ call.op = "update" /\ call.args = << <<81, 19>> >>
    /\ last_arm_signal = "disarmed"
    /\ events = <<>>
    /\ ~armed

\* C10 (as claimed): in every connection and arm state, disarm() dispatches one
\* relay-disable task for every relay, all of them before the disarm command.
C10_Original ==
    call.op = "disarm" =>
        /\ Len(out) = NumRelays + 1
        /\ \A r \in 1..NumRelays :
              \E i \in 1..NumRelays : out[i] = [k |-> "relay_task", v |-> <<Relay[r], 0>>]
        /\ out[Len(out)].k = "arducopter_disarm"

-----------------------------------------------------------------------------
(* Claims on relays: SpecRelay *)

\* C11: once disarm() has returned and every relay task started so far has
\* been sent without failure, the relay endpoint holds every relay disabled.
C11_Original ==
    (call.op = "disarm" /\ pool = EmptyBag)
        => \A i \in 1..Len(Relay) : ~relay_hw[i]

\* C12: set_relay(id, enabled) starts exactly one task, carrying (id, enabled),
\* when connected and (armed or not enabled); otherwise it starts nothing.
C12_RelayDispatch ==
    call.op = "set_relay" =>
        IF connected /\ (armed \/ call.args[1][2] = 0)
        THEN out = <<[k |-> "relay_task", v |-> call.args[1]]>>
        ELSE out = <<>>

\* C12 witness: a disable was dispatched while connected and disarmed.
C12_Witness ==
    /\ call.op = "set_relay"
    /\ connected /\ ~armed
    /\ out = <<[k |-> "relay_task", v |-> <<Relay[1], 0>>]>>

-----------------------------------------------------------------------------
(* Claims on modes and cameras: SpecCam *)

\* a step of a worker thread: it takes a task out of the pool
WorkerStep == BagCardinality(pool') < BagCardinality(pool)

\* C19: set_mode with a name that is not a known mode raises nothing, sends
\* no command and leaves the connection, arm, mode and camera state as they
\* were; with a known name it sends exactly one mode command, carrying that
\* name's id.
C19_SetModeByName ==
    [][(call'.op = "set_mode" /\ ~WorkerStep) =>
          LET name == call'.args[1]
          IN  /\ raised' = "none"
              /\ UNCHANGED <<connected, armed, mode_id, mode, camera_states>>
              /\ out' = CASE name = "STABILIZE" -> <<[k |-> "set_mode", v |-> <<0>>]>>
                          [] name = "ALT_HOLD"  -> <<[k |-> "set_mode", v |-> <<2>>]>>
                          [] name = "MANUAL"    -> <<[k |-> "set_mode", v |-> <<19>>]>>
                          [] OTHER              -> <<>>]_vars

\* C19 witness: an unknown name was passed and nothing was sent.
C19_Witness ==
    /\ call.op = "set_mode"
    /\ call.args = <<"NO_SUCH_MODE">>
    /\ out = <<>>
    /\ connected /\ armed

\* C20: set_camera_enabled while disconnected changes no entry, emits no
\* signal and starts no task; while connected it sets that camera's entry,
\* leaves the others as they were, emits the map signal once and starts one
\* camera task whose payload is the whole updated map.
C20_CameraUpdate ==
    [][(call'.op = "set_camera_enabled" /\ ~WorkerStep) =>
          LET cam == call'.args[1][1]
              enabled == call'.args[1][2] = 1
          IN  IF ~connected
              THEN /\ camera_states' = camera_states
                   /\ events' = <<>>
                   /\ out' = <<>>
                   /\ pool' = pool
              ELSE /\ camera_states'[cam] = enabled
                   /\ \A j \in 1..Len(Camera) :
                          j # cam => camera_states'[j] = camera_states[j]
                   /\ events' = <<"cameras_set">>
                   /\ Len(out') = 1
                   /\ out'[1].k = "camera_task"
                   /\ \A j \in 1..Len(Camera) :
                          out'[1].v[j] = IF camera_states'[j] THEN 1 ELSE 0
                   /\ BagCardinality(pool') = BagCardinality(pool) + 1]_vars

\* C20 witness: the first camera was switched off while connected; the other
\* entry kept its value and the payload carries both.
C20_Witness ==
    /\ call.op = "set_camera_enabled"
    /\ call.args = << <<1, 0>> >>
    /\ connected
    /\ camera_states = <<FALSE, TRUE>>
    /\ events = <<"cameras_set">>
    /\ out = <<[k |-> "camera_task", v |-> <<0, 1>>]>>

-----------------------------------------------------------------------------
(* Claims on the docking task: SpecTask *)

\* the command that carries pwm on the forward axis (channel 5) and the
\* throttle pwm on channel 3, 1500 on the other four axes and the ignore
\* value on the twelve channels left
AxisCommand(forward, throttle) ==
    [k |-> "rc_channels_override",
     v |-> [slot \in 1..18 |->
               CASE slot = 5 -> forward
                 [] slot = 3 -> throttle
                 [] slot \in {1, 2, 4, 6} -> 1500
                 [] OTHER -> 65535]]

C14_FinishAtMaxDuration ==
    (/\ task_pc = "initialized"
     /\ 10 * button_dims[1] <= 3 * image_dims[1]
     /\ 10 * button_dims[2] <= 3 * image_dims[2])
        => (is_finished <=> elapsed >= 500)

\* C14 witness: 500 seconds have passed with a box exactly at the end
\* fraction, and the task is finished.
C14_Witness ==
    /\ task_pc = "initialized"
    /\ button_dims = <<30, 30>>
    /\ elapsed = 500
    /\ is_finished

\* C15: is_finished() is false while less than 2 seconds have passed since
\* initialize(), whatever the box; from 2 seconds on it is true exactly when
\* the box width or height exceeds 30 percent of the frame or 500 seconds
\* have passed.
C15_MinDurationGate ==
    task_pc = "initialized" =>
        /\ elapsed < 2 => ~is_finished
        /\ elapsed >= 2 =>
              (is_finished <=> \/ 10 * button_dims[1] > 3 * image_dims[1]
                               \/ 10 * button_dims[2] > 3 * image_dims[2]
                               \/ elapsed >= 500)

\* C15 witness: one second in, the box already exceeds the end fraction and
\* the task is not finished.
C15_Witness ==
    /\ task_pc = "initialized"
    /\ elapsed = 1
    /\ button_dims = <<31, 3>>
    /\ ~is_finished

\* C16: while no target has been seen the box and frame sizes are the
\* sentinel (-1, -1), neither box test of is_finished() is true of it, and
\* the task finishes only at the maximum duration.
C16_SentinelNeverFinishes ==
    button_pos = <<-2, -2>> =>
        /\ button_dims = <<-1, -1>>
        /\ image_dims = <<-1, -1>>
        /\ ~Exceeds(button_dims[1], END_WIDTH_FRACTION, image_dims[1])
        /\ ~Exceeds(button_dims[2], END_HEIGHT_FRACTION, image_dims[2])
        /\ task_pc = "initialized" => (is_finished <=> elapsed >= 500)

\* C16 witness: frames without a target were handled for 500 seconds, and
\* the task is finished.
C16_Witness ==
    /\ task_pc = "initialized"
    /\ button_pos = <<-2, -2>>
    /\ call = [op |-> "handle_frame", args |-> <<NoContour>>]
    /\ elapsed = 500
    /\ is_finished

\* C17 as stated: end() requests manual mode and transmits 1500 on all six
\* axes in every phase and link state.
C17_Original ==
    call.op = "end" =>
        out = <<[k |-> "set_mode", v |-> <<19>>], AxisCommand(1500, 1500)>>

\* C17: end() raises nothing and requests manual mode in every phase and
\* link state; it transmits 1500 on all six axes after that exactly when the
\* link is connected and armed, and nothing else.
C17_EndRequestsManual ==
    call.op = "end" =>
        /\ raised = "none"
        /\ out = <<[k |-> "set_mode", v |-> <<19>>]>>
                    \o (IF connected /\ armed
                        THEN <<AxisCommand(1500, 1500)>> ELSE <<>>)

\* C17 witness: end() was called while steering with the vehicle connected
\* and disarmed; only the mode request was sent.
C17_Witness ==
    /\ call.op = "end"
    /\ task_state = 1
    /\ connected /\ ~armed
    /\ out = <<[k |-> "set_mode", v |-> <<19>>]>>

\* C18: initialize() requests altitude hold, and every periodic() that
\* starts in Crawl with the link connected and armed transmits forward at
\* the crawl speed (1660) with the other five axes at 1500, from the start
\* of the task on.
C18_Original ==
    [][/\ call'.op = "initialize" =>
              \E i \in 1..Len(out') : out'[i] = [k |-> "set_mode", v |-> <<2>>]
       /\ (call'.op = "periodic" /\ task_state = 0 /\ connected /\ armed) =>
              \E i \in 1..Len(out') : out'[i] = AxisCommand(1660, 1500)]_vars

-----------------------------------------------------------------------------
(* Claims on the methods of VehicleControl together: SpecVehicle *)

\* C21: connected, armed, mode_id and mode change only in update(); the
\* camera map changes only in set_camera_enabled, and the call that changes
\* it emits the map signal and starts a task carrying the whole map.
C21_SingleWriter ==
    [][/\ <<connected, armed, mode_id, mode>>' # <<connected, armed, mode_id, mode>>
            => (call'.op = "update" /\ ~WorkerStep)
       /\ camera_states' # camera_states
            => /\ call'.op = "set_camera_enabled"
               /\ ~WorkerStep
               /\ events' = <<"cameras_set">>
               /\ \E i \in 1..Len(out') :
                      /\ out'[i].k = "camera_task"
                      /\ \A j \in 1..Len(Camera) :
                             out'[i].v[j] = IF camera_states'[j] THEN 1 ELSE 0]_vars

\* C21 witness: arm() was called on a connected, disarmed vehicle, the arm
\* command went out and armed is still false.
C21_Witness ==
    /\ call.op = "arm"
    /\ out = <<[k |-> "arducopter_arm", v |-> <<>>]>>
    /\ connected /\ ~armed

\* C25: stop_thrusters() raises nothing in any connection and arm state, and
\* what it transmits, if anything, is one command with 1500 on the six axes
\* and the ignore value on the other twelve channels.
C25_StopAnyTime ==
    call.op = "stop_thrusters" =>
        /\ raised = "none"
        /\ out \in {<<>>, <<AxisCommand(1500, 1500)>>}

\* C25 witness: stop_thrusters() right after disarm(), whose task for the
\* second relay has not been sent yet; the vehicle still reports armed and
\* the neutral command went out.
C25_Witness ==
    /\ call.op = "stop_thrusters"
    /\ BagIn([k |-> "relay_task", v |-> <<Relay[2], 0>>], pool)
    /\ connected /\ armed
    /\ out = <<AxisCommand(1500, 1500)>>

-----------------------------------------------------------------------------
(* Claims on the mode and the heartbeat timestamp: Spec *)

\* C22: an update() whose heartbeat carries a custom-mode id other than the
\* stored one stores that id and its name (None for an id without a name) and
\* emits at most one mode signal, exactly one when the id has a name; every
\* other update() leaves mode_id and mode as they were and emits no mode
\* signal.
C22_ModeOnIdChange ==
    [][call'.op = "update" =>
          IF call'.args # <<>> /\ call'.args[1][2] # mode_id
          THEN LET id == call'.args[1][2]
               IN  /\ mode_id' = id
                   /\ mode' = CASE id = 0  -> "STABILIZE"
                                 [] id = 2  -> "ALT_HOLD"
                                 [] id = 19 -> "MANUAL"
                                 [] OTHER   -> "None"
                   /\ Count(events', "mode") <= 1
                   /\ id \in {0, 2, 19} => Count(events', "mode") = 1
          ELSE /\ mode_id' = mode_id
               /\ mode' = mode
               /\ Count(events', "mode") = 0]_vars

\* C22 witness: a heartbeat with id 19 arrived while 19 was stored; the
\* update emitted no mode signal.
C22_Witness ==
    /\ call = [op |-> "update", args |-> << <<81, 19>> >>]
    /\ mode_id = 19
    /\ raised = "none"
    /\ Count(events, "mode") = 0

\* C30 as stated: in every state connected implies that last_msg_time is set,
\* and an update() that reads no heartbeat while last_msg_time is still None
\* changes no field and emits no signal at all.
C30_Original ==
    [][/\ connected' => since_last_msg' # NoneId
       /\ (since_last_msg = NoneId /\ call'.op = "update" /\ call'.args = <<>>) =>
              /\ UNCHANGED link_state
              /\ raised' = "none"
              /\ events' = <<>>]_vars

\* C30: in every state connected implies that last_msg_time is set, and an
\* update() that reads no heartbeat while last_msg_time is still None changes
\* no field and emits no connection, arm or mode signal; the one signal it can
\* emit is depth_update, from the VFR_HUD read that follows.
C30_TimestampSet ==
    [][/\ connected' => since_last_msg' # NoneId
       /\ (since_last_msg = NoneId /\ call'.op = "update" /\ call'.args = <<>>) =>
              /\ UNCHANGED link_state
              /\ raised' = "none"
              /\ events' \in {<<>>, <<"depth_update">>}]_vars

\* a poll without a heartbeat before the first connection has forwarded a depth
C30_Witness ==
    /\ call = [op |-> "update", args |-> <<>>]
    /\ since_last_msg = NoneId
    /\ ~connected
    /\ last_conn_signal = "never"
    /\ events = <<"depth_update">>

(* Claims on the worker threads: SpecSide *)

\* what the relay endpoint holds once the command of task t has reached it
RelayDelivered(t) ==
    [i \in DOMAIN relay_hw |-> IF Relay[i] = t.v[1] THEN t.v[2] = 1 ELSE relay_hw[i]]

\* C23: a worker step takes one task out of the pool for good, whether its send
\* reached the endpoint or failed; a failed send leaves the endpoint as it was,
\* nothing is raised to the control thread or added to what it returned, and
\* the next set_relay or set_camera_enabled on a connected vehicle still starts
\* its task.
C23_FailureDropped ==
    [][/\ WorkerStep =>
            /\ \E t \in BagToSet(pool) :
                   /\ pool' = pool (-) SetToBag({t})
                   /\ \/ UNCHANGED <<relay_hw, cam_hw>>
                      \/ t.k = "relay_task" /\ relay_hw' = RelayDelivered(t)
                                            /\ cam_hw' = cam_hw
                      \/ t.k = "camera_task" /\ cam_hw' = t.v
                                             /\ relay_hw' = relay_hw
            /\ UNCHANGED <<call, raised, out, events>>
       /\ (~WorkerStep /\ call'.op \in {"set_relay", "set_camera_enabled"}) =>
            /\ raised' = "none"
            /\ pool' = pool (+) BagOf(out')
            /\ (call'.op = "set_camera_enabled" /\ connected) => Len(out') = 1
            /\ UNCHANGED <<relay_hw, cam_hw>>]_vars

\* the camera task was started and is gone without reaching the endpoint, and
\* a set_relay after it has started its own task
C23_Witness ==
    /\ camera_states = <<FALSE, TRUE>>
    /\ cam_hw = <<>>
    /\ call = [op |-> "set_relay", args |-> << <<Relay[1], 1>> >>]
    /\ raised = "none"
    /\ pool = SetToBag({[k |-> "relay_task", v |-> <<Relay[1], 1>>]})

\* C24: a worker step changes neither the connection, arm and mode fields nor
\* the camera map, and what a camera worker sends is the payload of the task it
\* took, which is the map as set_camera_enabled left it when it started the
\* task, whatever the map is by then.
C24_SnapshotOnly ==
    [][/\ WorkerStep =>
            /\ UNCHANGED <<connected, armed, mode_id, mode, camera_states>>
            /\ cam_hw' # cam_hw =>
                   \E t \in BagToSet(pool) :
                       /\ t.k = "camera_task"
                       /\ pool' = pool (-) SetToBag({t})
                       /\ cam_hw' = t.v
       /\ (~WorkerStep /\ call'.op = "set_camera_enabled") =>
            /\ \A i \in 1..Len(out') : out'[i].v = CamsDict(camera_states')
            /\ pool' = pool (+) BagOf(out')]_vars

\* the endpoint holds the map of the first dispatch while the map has moved on
\* and the task of the second dispatch still waits
C24_Witness ==
    /\ camera_states = <<TRUE, TRUE>>
    /\ cam_hw = <<0, 1>>
    /\ BagIn([k |-> "camera_task", v |-> <<1, 1>>], pool)
    /\ call = [op |-> "set_camera_enabled", args |-> << <<1, 1>> >>]

(* Claims on the phases and the steering of the docking task: SpecTask *)

\* periodic() has just asked the vehicle for manual mode
ManualRequested ==
    \E i \in 1..Len(out') : out'[i] = [k |-> "set_mode", v |-> <<19>>]

\* what periodic() does at the start fraction: it leaves Crawl for Steer
\* exactly when it sees a box of at least 3.5 percent of the frame in width or
\* height, and it asks for manual mode on exactly those passes
SteerEntry ==
    call'.op = "periodic" =>
        /\ (task_state = 0 /\ task_state' = 1)
              <=> /\ task_state = 0
                  /\ button_pos # NoTarget
                  /\ \/ 1000 * button_dims[1] >= 35 * image_dims[1]
                     \/ 1000 * button_dims[2] >= 35 * image_dims[2]
        /\ ManualRequested <=> (task_state = 0 /\ task_state' = 1)

\* C26 as stated: periodic() enters Steer and asks for manual mode as above, and
\* every run from initialize() to end() holds exactly one such request, so that
\* end() never finds the task in Crawl.
C26_Original ==
    [][/\ SteerEntry
       /\ task_state' >= task_state
       /\ call'.op = "end" => task_state >= 1]_vars

\* C26: periodic() leaves Crawl for Steer exactly when it sees a box of at
\* least the start fraction, and asks for manual mode on that pass and on no
\* other; the phase never returns to Crawl, so a run holds at most one such
\* request, and none when it ends in Crawl.
C26_ManualOnSteerEntry ==
    [][/\ SteerEntry
       /\ task_state' >= task_state
       /\ call'.op = "initialize" => task_state' = 0]_vars

\* periodic() has just moved the task to Steer and asked for manual mode
\* before the crawl command
C26_Witness ==
    /\ call.op = "periodic"
    /\ task_state = 1
    /\ connected /\ armed
    /\ out = <<[k |-> "set_mode", v |-> <<19>>], AxisCommand(1660, 1500)>>

\* C28: whenever is_finished() is true on account of the box, before the
\* maximum duration, the task is in the Ram phase.
C28_Original ==
    (/\ task_pc = "initialized"
     /\ is_finished
     /\ elapsed < MAX_TASK_DURATION) => task_state = 2

\* C29: once a target has been seen, horizontal_move() and vertical_move()
\* lie in [-1, 1], and so does every intent of the steering command.
C29_Original ==
    button_pos # NoTarget =>
        /\ FracInRange(horizontal_move)
        /\ FracInRange(vertical_move)
        /\ \A i \in 1..Len(SteerInputs) : FracInRange(SteerInputs[i][2])

(* Claims on the conversion to PWM: SpecPwm *)

\* a < b and a <= b for values with positive denominators
FracLess(a, b) == a[1] * b[2] < b[1] * a[2]

FracLessEq(a, b) == a[1] * b[2] <= b[1] * a[2]

\* C27 as stated: for a, b in [-1, 1], a < b exactly when pwm(a) <= pwm(b).
C27_Original ==
    (call.op = "pwm" /\ out # <<>>) =>
        (FracLess(call.args[1], call.args[2]) <=> out[1] <= out[2])

\* C27: for a, b in [-1, 1], a <= b implies pwm(a) <= pwm(b), and so
\* pwm(a) < pwm(b) implies a < b; both values land in 1100..1900.
C27_Monotonic ==
    (call.op = "pwm" /\ out # <<>>) =>
        /\ FracLessEq(call.args[1], call.args[2]) => out[1] <= out[2]
        /\ out[1] < out[2] => FracLess(call.args[1], call.args[2])
        /\ out[1] \in PWM_MIN..PWM_MAX /\ out[2] \in PWM_MIN..PWM_MAX

\* 0.002 and 0.003 differ and are converted to one pwm, 1501
C27_Witness ==
    /\ call = [op |-> "pwm", args |-> << <<2, PwmGrid>>, <<3, PwmGrid>> >>]
    /\ out = <<1501, 1501>>

\* C31: the step that takes the link from connected to disconnected leaves
\* armed, mode_id and mode as they were and emits the disconnected signal and
\* no arm or mode signal; a later heartbeat that reconnects with the same armed
\* bit and the same mode id emits the connected signal once and no arm or mode
\* signal, and leaves the three fields as they were.
C31_DisconnectKeepsArmAndMode ==
    [][/\ (connected /\ ~connected') =>
              /\ UNCHANGED <<armed, mode_id, mode>>
              /\ events' \in {<<"disconnected">>, <<"disconnected", "depth_update">>}
       /\ (/\ ~connected /\ connected'
           /\ last_conn_signal = "disconnected"
           /\ ArmedBit(call'.args[1][1]) = armed
           /\ call'.args[1][2] = mode_id) =>
              /\ UNCHANGED <<armed, mode_id, mode>>
              /\ events' \in {<<"connected">>, <<"connected", "depth_update">>}]_vars

\* the vehicle was armed in manual mode when the link was lost, and the
\* heartbeat that reconnects it has emitted the connected signal alone
C31_Witness ==
    /\ call = [op |-> "update", args |-> << <<209, 19>> >>]
    /\ connected /\ armed /\ mode_id = 19 /\ mode = "MANUAL"
    /\ since_last_msg = 0
    /\ events = <<"connected">>

(* Claims on the capture thread: SpecCapture *)

\* C32: once capture() has returned and the capture thread has finished, every
\* capture has its frame saved under its own number, and the folder holds as
\* many files as paths were recorded.
C32_Original ==
    (capture_pc = "idle" /\ run_pc = "finished") =>
        /\ \A n \in 1..Len(picture_paths) : <<picture_paths[n], frames[n]>> \in saved
        /\ Cardinality(saved) = Len(picture_paths)

=============================================================================
